---- MODULE Spec2Model ----
(***************************************************************************)
(* Server lifecycle and TLS configuration of traefik-forward-auth          *)
(* (package server): NewServer / loadTLSConfig, Server.Run,                *)
(* startAppServer, startMetricsServer and their serve goroutines.          *)
(***************************************************************************)
EXTENDS Integers, Sequences, FiniteSets, TLC

(***************************************************************************)
(* Bounds of the model                                                     *)
(***************************************************************************)
\* number of goroutines that call Server.Run on the one Server
NumCallers == 2
\* number of Run invocations that win the compare-and-swap
MaxRuns == 2

Callers == 1..NumCallers
RunIds == 1..MaxRuns

(***************************************************************************)
(* Values of the configuration and of the file system                      *)
(***************************************************************************)
\* PEM strings: empty, not PEM at all, or a parsable one
CAPEMs == {"", "garbage", "caPEM"}
CertPEMs == {"", "garbage", "certA", "certB"}
KeyPEMs == {"", "garbage", "keyA", "keyB"}

TLSPaths == {"", "/tls"}
ConfigPaths == {"", "/etc/tfa/config.yaml"}

\* a file is absent or holds one of the PEM strings
Absent == "absent"

\* config.Config fields read by loadTLSConfig and Run
Configs ==
    [ TLSPath : TLSPaths,
      LoadedConfigPath : ConfigPaths,
      TLSClientAuth : BOOLEAN,
      TLSCAPEM : CAPEMs,
      TLSCertPEM : CertPEMs,
      TLSKeyPEM : KeyPEMs,
      EnableMetrics : BOOLEAN ]

\* the one directory of the file system that holds TLS files, and its files
FileSystems ==
    [ dir : {"/tls", "/etc/tfa"},
      ca : {Absent, "garbage", "caPEM"},
      cert : {Absent, "garbage", "certA"},
      key : {Absent, "garbage", "keyA"} ]

\* a nil *tls.Config: a record, so that it compares with the configs built
NilConfig == [ MinVersion |-> "nil" ]
NilFn == "nil"
NoErr == "nil"

\* filepath.Dir on the paths of the model
FilepathDir(file) == IF file = "/etc/tfa/config.yaml" THEN "/etc/tfa" ELSE "."

\* os.ReadFile(filepath.Join(dir, name)): the content, or Absent on error
ReadFile(fs, dir, name) ==
    IF dir = fs.dir THEN fs[name] ELSE Absent

\* (*x509.CertPool).AppendCertsFromPEM: true iff a certificate was parsed
AppendCertsFromPEM(pem) == pem = "caPEM"

\* tls.X509KeyPair: succeeds iff both parse and the key belongs to the cert
X509KeyPair(cert, key) ==
    \/ cert = "certA" /\ key = "keyA"
    \/ cert = "certB" /\ key = "keyB"

\* newTLSCertProvider(path): "none" (nil provider, nil error) when the
\* directory holds no certificate files, "ok" when it holds a valid pair,
\* "err" otherwise
newTLSCertProvider(fs, path) ==
    LET cert == ReadFile(fs, path, "cert")
        key == ReadFile(fs, path, "key")
    IN  IF cert = Absent /\ key = Absent THEN "none"
        ELSE IF cert # Absent /\ key # Absent /\ X509KeyPair(cert, key) THEN "ok"
        ELSE "err"

\* a tls.Config that always carries the certificate-lookup callback
TLSConfigOfAlwaysCallback(clientAuth, certificates, getCertificate) ==
    [ MinVersion |-> "minTLSVersion",
      ClientAuth |-> IF clientAuth THEN "VerifyClientCertIfGiven" ELSE "NoClientCert",
      ClientCAs |-> IF clientAuth THEN "caCertPool" ELSE "nil",
      Certificates |-> certificates,
      GetCertificate |-> "provider.GetCertificateFn" ]

\* tls.Config as built by loadTLSConfig
TLSConfigOf(clientAuth, certificates, getCertificate) ==
    [ MinVersion |-> "minTLSVersion",
      ClientAuth |-> IF clientAuth THEN "VerifyClientCertIfGiven" ELSE "NoClientCert",
      ClientCAs |-> IF clientAuth THEN "caCertPool" ELSE "nil",
      Certificates |-> certificates,
      GetCertificate |-> getCertificate ]

LoadResult(c, w, e) == [ tlsConfig |-> c, watchFn |-> w, err |-> e ]

\* the directory resolved without the fallback to the config file's folder
ResolveTLSPathNoFallback(cfg) == cfg.TLSPath

\* the directory loadTLSConfig resolves (lines 436-443)
ResolveTLSPath(cfg) ==
    IF cfg.TLSPath # "" THEN cfg.TLSPath
    ELSE IF cfg.LoadedConfigPath # "" THEN FilepathDir(cfg.LoadedConfigPath)
    ELSE ""

\* LoadCA without the check of AppendCertsFromPEM's result
LoadCAUnchecked(cfg, fs) ==
    LET tlsPath == ResolveTLSPath(cfg)
        fromFile == ReadFile(fs, tlsPath, "ca")
    IN  IF ~cfg.TLSClientAuth THEN NoErr
        ELSE IF cfg.TLSCAPEM = "" /\ tlsPath = "" THEN "errNoCAPath"
        ELSE IF cfg.TLSCAPEM = "" /\ fromFile = Absent THEN "errCARead"
        ELSE NoErr

\* the CA block of loadTLSConfig (lines 445-481): NoErr or the error returned
LoadCA(cfg, fs) ==
    LET tlsPath == ResolveTLSPath(cfg)
        fromFile == ReadFile(fs, tlsPath, "ca")
        caCert == IF cfg.TLSCAPEM # "" THEN cfg.TLSCAPEM ELSE fromFile
    IN  IF ~cfg.TLSClientAuth THEN NoErr
        ELSE IF cfg.TLSCAPEM = "" /\ tlsPath = "" THEN "errNoCAPath"
        ELSE IF cfg.TLSCAPEM = "" /\ fromFile = Absent THEN "errCARead"
        ELSE IF ~AppendCertsFromPEM(caCert) THEN "errCAImport"
        ELSE NoErr

\* a partial PEM pair treated as an error
PartialPEMRejected(cfg) == LoadResult(NilConfig, NilFn, "errPartialPEM")

\* one of the PEM values is empty and the other is not: no TLS (lines 516-519)
PartialPEMResult(cfg) == LoadResult(NilConfig, NilFn, NoErr)

\* LoadServerCert that fails when no directory is resolved
LoadServerCertNoDirFails(cfg, fs) ==
    IF cfg.TLSCertPEM = "" /\ cfg.TLSKeyPEM = "" /\ ResolveTLSPath(cfg) = ""
    THEN LoadResult(NilConfig, NilFn, "errProvider")
    ELSE IF cfg.TLSCertPEM = "" \/ cfg.TLSKeyPEM = ""
    THEN LoadResult(NilConfig, NilFn, NoErr)
    ELSE LoadResult(TLSConfigOf(cfg.TLSClientAuth, <<cfg.TLSCertPEM>>, "nil"), NilFn, NoErr)

\* the server certificate block of loadTLSConfig (lines 483-529)
LoadServerCert(cfg, fs) ==
    LET tlsPath == ResolveTLSPath(cfg)
        tlsCert == cfg.TLSCertPEM
        tlsKey == cfg.TLSKeyPEM
        provider == newTLSCertProvider(fs, tlsPath)
    IN  IF tlsCert = "" /\ tlsKey = "" THEN
            IF tlsPath = "" THEN LoadResult(NilConfig, NilFn, NoErr)
            ELSE IF provider = "err" THEN LoadResult(NilConfig, NilFn, "errProvider")
            ELSE IF provider = "none" THEN LoadResult(NilConfig, NilFn, NoErr)
            ELSE LoadResult(
                    TLSConfigOf(cfg.TLSClientAuth, <<>>, "provider.GetCertificateFn"),
                    "provider.Watch", NoErr)
        ELSE IF tlsCert = "" \/ tlsKey = "" THEN PartialPEMResult(cfg)
        ELSE IF ~X509KeyPair(tlsCert, tlsKey) THEN
            LoadResult(NilConfig, NilFn, "errKeyPair")
        ELSE LoadResult(TLSConfigOf(cfg.TLSClientAuth, <<tlsCert>>, "nil"), NilFn, NoErr)

\* Server.loadTLSConfig (lines 429-530)
loadTLSConfig(cfg, fs) ==
    IF LoadCA(cfg, fs) # NoErr THEN LoadResult(NilConfig, NilFn, LoadCA(cfg, fs))
    ELSE LoadServerCert(cfg, fs)


(***************************************************************************)
(* State of the program                                                    *)
(***************************************************************************)
Kinds == {"app", "metrics"}

VARIABLES
    cfg,             \* config.Get()
    fs,              \* the files loadTLSConfig reads
    constructed,     \* "no", "ready" (NewServer returned s) or "failed"
    tlsConfig,       \* Server.tlsConfig
    tlsCertWatchFn,  \* Server.tlsCertWatchFn
    newErr,          \* the error NewServer returned
    running,         \* Server.running
    wg,              \* counter of Server.wg
    srv,             \* Server.appSrv, Server.metricsSrv: 0 (nil) or the Run that made it
    inShutdown,      \* http.Server.inShutdown of every server object
    listener,        \* Server.appListener, Server.metricsListener
    closes,          \* number of Close calls executed on each listener
    runs,            \* number of Run invocations that won the compare-and-swap
    pc,              \* position of each caller inside Run
    ctxDone,         \* whether the caller's context is cancelled
    retval,          \* value of the return statement Run executed
    shutdownErr,     \* what each Shutdown call of the current Run returned
    g,               \* position of the serve goroutine of each Run
    gsrv,            \* the server object a goroutine is inside Serve on (0: none)
    exited           \* the process was terminated by log.Fatal

cfgVars == <<cfg, fs>>
tlsVars == <<constructed, tlsConfig, tlsCertWatchFn, newErr>>
srvVars == <<srv, inShutdown, listener, closes>>
goVars == <<g, gsrv>>
runVars == <<running, wg, runs, pc, ctxDone, retval, shutdownErr>>
vars == <<cfg, fs, constructed, tlsConfig, tlsCertWatchFn, newErr, running, wg,
          srv, inShutdown, listener, closes, runs, pc, ctxDone, retval,
          shutdownErr, g, gsrv, exited>>

\* the configurations Run is explored under: every TLS mode, with and
\* without metrics, plus configurations NewServer rejects
RunConfigs ==
    { c \in Configs :
        /\ c.TLSPath = ""
        /\ c.TLSCAPEM = ""
        /\ \/ /\ c.TLSCertPEM = "" /\ c.TLSKeyPEM = ""
              /\ c.TLSClientAuth = (c.LoadedConfigPath # "")
           \/ /\ c.TLSCertPEM = "certA" /\ c.TLSKeyPEM = "keyA"
              /\ c.LoadedConfigPath = "" /\ c.EnableMetrics }

RunFileSystems ==
    { f \in FileSystems :
        f.dir = "/etc/tfa" /\ f.ca = "caPEM" /\ f.cert = "certA" /\ f.key = "keyA" }

\* the Server before NewServer ran: zero values of its fields
InitServer ==
    /\ constructed = "no"
    /\ tlsConfig = NilConfig
    /\ tlsCertWatchFn = NilFn
    /\ newErr = NoErr
    /\ running = FALSE
    /\ wg = 0
    /\ srv = [k \in Kinds |-> 0]
    /\ inShutdown = [k \in Kinds |-> [r \in RunIds |-> FALSE]]
    /\ listener = [k \in Kinds |-> "nil"]
    /\ closes = [k \in Kinds |-> 0]
    /\ runs = 0
    /\ pc = [c \in Callers |-> "idle"]
    /\ ctxDone = [c \in Callers |-> FALSE]
    /\ retval = [c \in Callers |-> "none"]
    /\ shutdownErr = [k \in Kinds |-> "none"]
    /\ g = [k \in Kinds |-> [r \in RunIds |-> "none"]]
    /\ gsrv = [k \in Kinds |-> [r \in RunIds |-> 0]]
    /\ exited = FALSE

Init ==
    /\ cfg \in RunConfigs
    /\ fs \in RunFileSystems
    /\ InitServer

InitTLS ==
    /\ cfg \in Configs
    /\ fs \in FileSystems
    /\ InitServer

(***************************************************************************)
(* NewServer -> init -> initAppServer: loads the TLS configuration         *)
(***************************************************************************)
NewServer ==
    /\ constructed = "no"
    /\ LET r == loadTLSConfig(cfg, fs)
       IN  /\ tlsConfig' = r.tlsConfig
           /\ tlsCertWatchFn' = r.watchFn
           /\ newErr' = r.err
           /\ constructed' = IF r.err = NoErr THEN "ready" ELSE "failed"
    /\ UNCHANGED <<cfgVars, srvVars, goVars, runVars, exited>>


(***************************************************************************)
(* Server.Run                                                              *)
(***************************************************************************)
\* a Store(true) in place of the compare-and-swap
CompareAndSwapBlind(flag) == TRUE

\* atomic.Bool.CompareAndSwap(false, true) on the flag: does it swap
CompareAndSwap(flag) == flag = FALSE

\* sync.WaitGroup.Wait returns when the counter is zero
WaitReturns(counter) == counter = 0

\* the goroutines of one kind that are inside Serve on server object s
Serving(k, s) == { r \in RunIds : g[k][r] = "serving" /\ gsrv[k][r] = s }

\* the metrics shutdown hook left out
FirstDeferAppOnly == "appShutdown"

\* the deferred function that runs first when Run returns after startup
FirstDefer == IF cfg.EnableMetrics THEN "metricsShutdown" ELSE "appShutdown"

\* a goroutine calls s.Run(ctx) with a live context
RunCall(c) ==
    /\ constructed = "ready" /\ ~exited
    /\ pc[c] = "idle"
    /\ runs < MaxRuns \/ running
    /\ pc' = [pc EXCEPT ![c] = "cas"]
    /\ UNCHANGED <<cfgVars, tlsVars, srvVars, goVars, running, wg, runs, ctxDone,
                   retval, shutdownErr, exited>>

\* lines 265-269: the compare-and-swap and, when it swapped, the two defers
RunCAS(c) ==
    /\ ~exited
    /\ pc[c] = "cas"
    /\ IF CompareAndSwap(running)
       THEN /\ runs < MaxRuns
            /\ running' = TRUE
            /\ runs' = runs + 1
            /\ pc' = [pc EXCEPT ![c] = "startApp"]
       ELSE /\ pc' = [pc EXCEPT ![c] = "rejected"]
            /\ UNCHANGED <<running, runs>>
    /\ UNCHANGED <<cfgVars, tlsVars, srvVars, goVars, wg, ctxDone, retval,
                   shutdownErr, exited>>

\* the running flag cleared by the rejected call too
RunRejectedClearsFlag(c) ==
    /\ ~exited
    /\ pc[c] = "rejected"
    /\ pc' = [pc EXCEPT ![c] = "idle"]
    /\ running' = FALSE
    /\ UNCHANGED <<cfgVars, tlsVars, srvVars, goVars, wg, runs, ctxDone,
                   retval, shutdownErr, exited>>

\* line 266: return errors.New("server is already running")
RunRejected(c) ==
    /\ ~exited
    /\ pc[c] = "rejected"
    /\ pc' = [pc EXCEPT ![c] = "idle"]
    /\ UNCHANGED <<cfgVars, tlsVars, srvVars, goVars, running, wg, runs, ctxDone,
                   retval, shutdownErr, exited>>

\* startAppServer / startMetricsServer (lines 330-382, 384-426) after
\* wg.Add(1): a new http.Server, net.Listen when there is no listener yet,
\* then the serve goroutine. okPc and failPc are where Run continues.
StartServer(c, k, okPc, failErr, failPc) ==
    /\ wg' = wg + 1
    /\ srv' = [srv EXCEPT ![k] = runs]
    /\ \/ /\ listener[k] = "nil"
          /\ listener' = listener
          /\ retval' = [retval EXCEPT ![c] = failErr]
          /\ pc' = [pc EXCEPT ![c] = failPc]
          /\ UNCHANGED g
       \/ /\ listener' = [listener EXCEPT ![k] = IF @ = "nil" THEN "open" ELSE @]
          /\ g' = [g EXCEPT ![k][runs] = "start"]
          /\ pc' = [pc EXCEPT ![c] = okPc]
          /\ UNCHANGED retval
    /\ UNCHANGED <<cfgVars, tlsVars, inShutdown, closes, gsrv, running, runs,
                   ctxDone, shutdownErr, exited>>

\* lines 273-278
StartApp(c) ==
    /\ ~exited
    /\ pc[c] = "startApp"
    /\ StartServer(c, "app", "startMetrics", "errStartApp", "wgWait")

\* the metrics server started whatever the configuration says
StartMetricsAlways(c) ==
    /\ ~exited
    /\ pc[c] = "startMetrics"
    /\ StartServer(c, "metrics", "watch", "errStartMetrics", "appShutdown")

\* lines 293-299
StartMetrics(c) ==
    /\ ~exited
    /\ pc[c] = "startMetrics"
    /\ cfg.EnableMetrics
    /\ StartServer(c, "metrics", "watch", "errStartMetrics", "appShutdown")

\* line 294 with metrics disabled
SkipMetrics(c) ==
    /\ ~exited
    /\ pc[c] = "startMetrics"
    /\ ~cfg.EnableMetrics
    /\ pc' = [pc EXCEPT ![c] = "watch"]
    /\ UNCHANGED <<cfgVars, tlsVars, srvVars, goVars, running, wg, runs, ctxDone,
                   retval, shutdownErr, exited>>

\* lines 315-317: invoke tlsCertWatchFn when there is one
WatchCall(c) ==
    /\ ~exited
    /\ pc[c] = "watch"
    /\ pc' = [pc EXCEPT ![c] = IF tlsCertWatchFn = NilFn THEN "block" ELSE "watching"]
    /\ UNCHANGED <<cfgVars, tlsVars, srvVars, goVars, running, wg, runs, ctxDone,
                   retval, shutdownErr, exited>>

\* what provider.Watch(ctx) can return
WatchOutcomes == {"nil", "err"}

\* a watch error that leaves Run without running the shutdown hooks
WatchReturnSkipsHooks(c) ==
    /\ ~exited
    /\ pc[c] = "watching"
    /\ \E out \in WatchOutcomes :
        IF out = "nil"
        THEN /\ pc' = [pc EXCEPT ![c] = "block"]
             /\ UNCHANGED retval
        ELSE /\ retval' = [retval EXCEPT ![c] = "errWatch"]
             /\ pc' = [pc EXCEPT ![c] = "wgWait"]
    /\ UNCHANGED <<cfgVars, tlsVars, srvVars, goVars, running, wg, runs, ctxDone,
                   shutdownErr, exited>>

\* lines 317-321: the watch function returns
WatchReturn(c) ==
    /\ ~exited
    /\ pc[c] = "watching"
    /\ \E out \in WatchOutcomes :
        IF out = "nil"
        THEN /\ pc' = [pc EXCEPT ![c] = "block"]
             /\ UNCHANGED retval
        ELSE /\ retval' = [retval EXCEPT ![c] = "errWatch"]
             /\ pc' = [pc EXCEPT ![c] = FirstDefer]
    /\ UNCHANGED <<cfgVars, tlsVars, srvVars, goVars, running, wg, runs, ctxDone,
                   shutdownErr, exited>>

\* the owner of the context cancels it
Cancel(c) ==
    /\ ~exited
    /\ pc[c] \notin {"idle", "cas", "rejected"}
    /\ ~ctxDone[c]
    /\ ctxDone' = [ctxDone EXCEPT ![c] = TRUE]
    /\ UNCHANGED <<cfgVars, tlsVars, srvVars, goVars, running, wg, runs, pc,
                   retval, shutdownErr, exited>>

\* a Run that does not wait for the cancellation
CtxDoneUnblocked(c) ==
    /\ ~exited
    /\ pc[c] = "block"
    /\ retval' = [retval EXCEPT ![c] = "nil"]
    /\ pc' = [pc EXCEPT ![c] = FirstDefer]
    /\ UNCHANGED <<cfgVars, tlsVars, srvVars, goVars, running, wg, runs, ctxDone,
                   shutdownErr, exited>>

\* lines 323-327: <-ctx.Done() and return nil
CtxDone(c) ==
    /\ ~exited
    /\ pc[c] = "block"
    /\ ctxDone[c]
    /\ retval' = [retval EXCEPT ![c] = "nil"]
    /\ pc' = [pc EXCEPT ![c] = FirstDefer]
    /\ UNCHANGED <<cfgVars, tlsVars, srvVars, goVars, running, wg, runs, ctxDone,
                   shutdownErr, exited>>

\* http.Server.Shutdown up to closing the listeners: sets inShutdown and
\* closes the listener of every Serve call in progress on that server
ShutdownBegin(c, k, nextPc) ==
    LET n == Cardinality(Serving(k, srv[k]))
    IN  /\ inShutdown' = [inShutdown EXCEPT ![k][srv[k]] = TRUE]
        /\ listener' = [listener EXCEPT ![k] = IF n > 0 THEN "closed" ELSE @]
        /\ closes' = [closes EXCEPT ![k] = @ + n]
        /\ pc' = [pc EXCEPT ![c] = nextPc]
        /\ UNCHANGED <<cfgVars, tlsVars, srv, goVars, running, wg, runs, ctxDone,
                       retval, shutdownErr, exited>>

\* a Shutdown error that becomes the result of Run
ShutdownEndEscalates(c, k, nextPc) ==
    /\ Serving(k, srv[k]) = {}
    /\ \E e \in {"nil", "err"} :
        /\ shutdownErr' = [shutdownErr EXCEPT ![k] = e]
        /\ retval' = IF e = "err" THEN [retval EXCEPT ![c] = "errShutdown"] ELSE retval
    /\ wg' = wg - 1
    /\ pc' = [pc EXCEPT ![c] = nextPc]
    /\ UNCHANGED <<cfgVars, tlsVars, srvVars, goVars, running, runs, ctxDone, exited>>

\* Shutdown returns (once the Serve calls on that server have returned),
\* with nil or with the error of its timeout; then the deferred wg.Done()
ShutdownEnd(c, k, nextPc) ==
    /\ Serving(k, srv[k]) = {}
    /\ \E e \in {"nil", "err"} : shutdownErr' = [shutdownErr EXCEPT ![k] = e]
    /\ wg' = wg - 1
    /\ pc' = [pc EXCEPT ![c] = nextPc]
    /\ UNCHANGED <<cfgVars, tlsVars, srvVars, goVars, running, runs, ctxDone,
                   retval, exited>>

\* lines 300-312: the deferred shutdown of the metrics server
MetricsShutdown(c) ==
    /\ ~exited
    /\ pc[c] = "metricsShutdown"
    /\ ShutdownBegin(c, "metrics", "metricsShutdownWait")

MetricsShutdownReturn(c) ==
    /\ ~exited
    /\ pc[c] = "metricsShutdownWait"
    /\ ShutdownEnd(c, "metrics", "appShutdown")

\* lines 279-291: the deferred shutdown of the application server
AppShutdown(c) ==
    /\ ~exited
    /\ pc[c] = "appShutdown"
    /\ ShutdownBegin(c, "app", "appShutdownWait")

AppShutdownReturn(c) ==
    /\ ~exited
    /\ pc[c] = "appShutdownWait"
    /\ ShutdownEnd(c, "app", "wgWait")

\* lines 268-269: deferred s.wg.Wait(), then s.running.Store(false), and
\* Run returns retval to its caller; the locals and the context of the call
\* are gone
WgWait(c) ==
    /\ ~exited
    /\ pc[c] = "wgWait"
    /\ WaitReturns(wg)
    /\ running' = FALSE
    /\ pc' = [pc EXCEPT ![c] = "idle"]
    /\ retval' = [retval EXCEPT ![c] = "none"]
    /\ ctxDone' = [ctxDone EXCEPT ![c] = FALSE]
    /\ shutdownErr' = [k \in Kinds |-> "none"]
    /\ UNCHANGED <<cfgVars, tlsVars, srvVars, goVars, wg, runs, exited>>

(***************************************************************************)
(* The serve goroutines (lines 366-379 and 415-423)                        *)
(***************************************************************************)
\* the goroutine starts: defer listener.Close(), then Serve on the server
\* the Server field holds now. Serve returns ErrServerClosed at once (closing
\* the listener) when that server is shutting down.
GoServe(k, r) ==
    /\ ~exited
    /\ g[k][r] = "start"
    /\ IF inShutdown[k][srv[k]]
       THEN /\ g' = [g EXCEPT ![k][r] = "retClosed"]
            /\ listener' = [listener EXCEPT ![k] = "closed"]
            /\ closes' = [closes EXCEPT ![k] = @ + 1]
            /\ UNCHANGED gsrv
       ELSE /\ g' = [g EXCEPT ![k][r] = "serving"]
            /\ gsrv' = [gsrv EXCEPT ![k][r] = srv[k]]
            /\ UNCHANGED <<listener, closes>>
    /\ UNCHANGED <<cfgVars, tlsVars, srv, inShutdown, runVars, exited>>

\* Accept fails because Shutdown closed the listener: Serve returns
\* ErrServerClosed
ServeReturn(k, r) ==
    /\ ~exited
    /\ g[k][r] = "serving"
    /\ listener[k] = "closed"
    /\ inShutdown[k][gsrv[k][r]]
    /\ g' = [g EXCEPT ![k][r] = "retClosed"]
    /\ gsrv' = [gsrv EXCEPT ![k][r] = 0]
    /\ UNCHANGED <<cfgVars, tlsVars, srvVars, runVars, exited>>

\* srvErr != http.ErrServerClosed: log.Fatal ends the process (os.Exit), and
\* with it the Server, every Run in progress and every goroutine
Fatal ==
    /\ exited' = TRUE
    /\ running' = FALSE
    /\ wg' = 0
    /\ srv' = [k \in Kinds |-> 0]
    /\ inShutdown' = [k \in Kinds |-> [r \in RunIds |-> FALSE]]
    /\ listener' = [k \in Kinds |-> "nil"]
    /\ closes' = [k \in Kinds |-> 0]
    /\ runs' = 0
    /\ pc' = [c \in Callers |-> "idle"]
    /\ ctxDone' = [c \in Callers |-> FALSE]
    /\ retval' = [c \in Callers |-> "none"]
    /\ shutdownErr' = [k \in Kinds |-> "none"]
    /\ g' = [k \in Kinds |-> [r \in RunIds |-> "none"]]
    /\ gsrv' = [k \in Kinds |-> [r \in RunIds |-> 0]]
    /\ UNCHANGED <<cfgVars, tlsVars>>

\* Accept fails on a listener that something other than this server's
\* Shutdown closed: Serve returns the Accept error
ServeOnClosed(k, r) ==
    /\ ~exited
    /\ g[k][r] = "serving"
    /\ listener[k] = "closed"
    /\ ~inShutdown[k][gsrv[k][r]]
    /\ Fatal

\* a serve error that ends the goroutine without ending the process
ServeErrorIgnored(k, r) ==
    /\ ~exited
    /\ g[k][r] = "serving"
    /\ listener[k] = "open"
    /\ ~inShutdown[k][gsrv[k][r]]
    /\ g' = [g EXCEPT ![k][r] = "retClosed"]
    /\ gsrv' = [gsrv EXCEPT ![k][r] = 0]
    /\ UNCHANGED <<cfgVars, tlsVars, srvVars, runVars, exited>>

\* Accept fails on an open listener of a server that is not shutting down
ServeError(k, r) ==
    /\ ~exited
    /\ g[k][r] = "serving"
    /\ listener[k] = "open"
    /\ ~inShutdown[k][gsrv[k][r]]
    /\ Fatal

\* srvErr == http.ErrServerClosed: the goroutine ends and its deferred
\* listener.Close() runs
GoExit(k, r) ==
    /\ ~exited
    /\ g[k][r] = "retClosed"
    /\ g' = [g EXCEPT ![k][r] = "done"]
    /\ listener' = [listener EXCEPT ![k] = "closed"]
    /\ closes' = [closes EXCEPT ![k] = @ + 1]
    /\ UNCHANGED <<cfgVars, tlsVars, srv, inShutdown, gsrv, runVars, exited>>

(***************************************************************************)
(* Specifications                                                          *)
(***************************************************************************)
RunStep(c) ==
    \/ RunCAS(c)
    \/ RunRejected(c)
    \/ StartApp(c)
    \/ StartMetrics(c)
    \/ SkipMetrics(c)
    \/ WatchCall(c)
    \/ WatchReturn(c)
    \/ CtxDone(c)
    \/ MetricsShutdown(c)
    \/ MetricsShutdownReturn(c)
    \/ AppShutdown(c)
    \/ AppShutdownReturn(c)
    \/ WgWait(c)

GoStep(k, r) ==
    \/ GoServe(k, r)
    \/ ServeReturn(k, r)
    \/ ServeOnClosed(k, r)
    \/ GoExit(k, r)

Next ==
    \/ NewServer
    \/ \E c \in Callers : RunCall(c)
    \/ \E c \in Callers : RunCAS(c)
    \/ \E c \in Callers : RunRejected(c)
    \/ \E c \in Callers : StartApp(c)
    \/ \E c \in Callers : StartMetrics(c)
    \/ \E c \in Callers : SkipMetrics(c)
    \/ \E c \in Callers : WatchCall(c)
    \/ \E c \in Callers : WatchReturn(c)
    \/ \E c \in Callers : Cancel(c)
    \/ \E c \in Callers : CtxDone(c)
    \/ \E c \in Callers : MetricsShutdown(c)
    \/ \E c \in Callers : MetricsShutdownReturn(c)
    \/ \E c \in Callers : AppShutdown(c)
    \/ \E c \in Callers : AppShutdownReturn(c)
    \/ \E c \in Callers : WgWait(c)
    \/ \E k \in Kinds, r \in RunIds : GoServe(k, r)
    \/ \E k \in Kinds, r \in RunIds : ServeReturn(k, r)
    \/ \E k \in Kinds, r \in RunIds : ServeOnClosed(k, r)
    \/ \E k \in Kinds, r \in RunIds : ServeError(k, r)
    \/ \E k \in Kinds, r \in RunIds : GoExit(k, r)

Spec == Init /\ [][Next]_vars

\* every step of Run and of the goroutines is eventually scheduled, and the
\* context of a Run in progress is eventually cancelled
Fairness ==
    /\ \A c \in Callers : WF_vars(RunStep(c))
    /\ \A c \in Callers : WF_vars(Cancel(c))
    /\ \A k \in Kinds, r \in RunIds : WF_vars(GoStep(k, r))

FairSpec == Init /\ [][Next]_vars /\ Fairness

\* loadTLSConfig alone, over every configuration and file system
NextTLS == NewServer

SpecTLS == InitTLS /\ [][NextTLS]_vars

Pcs ==
    { "idle", "cas", "rejected", "startApp", "startMetrics", "watch", "watching",
      "block", "metricsShutdown", "metricsShutdownWait", "appShutdown",
      "appShutdownWait", "wgWait" }

TypeOK ==
    /\ cfg \in Configs
    /\ fs \in FileSystems
    /\ constructed \in {"no", "ready", "failed"}
    /\ running \in BOOLEAN
    /\ wg \in 0..2
    /\ srv \in [Kinds -> 0..MaxRuns]
    /\ inShutdown \in [Kinds -> [RunIds -> BOOLEAN]]
    /\ listener \in [Kinds -> {"nil", "open", "closed"}]
    /\ closes \in [Kinds -> Nat]
    /\ runs \in 0..MaxRuns
    /\ pc \in [Callers -> Pcs]
    /\ ctxDone \in [Callers -> BOOLEAN]
    /\ retval \in [Callers -> {"none", "nil", "errStartApp", "errStartMetrics", "errWatch"}]
    /\ shutdownErr \in [Kinds -> {"none", "nil", "err"}]
    /\ g \in [Kinds -> [RunIds -> {"none", "start", "serving", "retClosed", "done"}]]
    /\ gsrv \in [Kinds -> [RunIds -> 0..MaxRuns]]
    /\ exited \in BOOLEAN


(***************************************************************************)
(* Properties                                                              *)
(***************************************************************************)
\* the caller is inside Run, past the compare-and-swap
InRun(c) == pc[c] \notin {"idle", "cas", "rejected"}

DeferPcs ==
    {"metricsShutdown", "metricsShutdownWait", "appShutdown", "appShutdownWait", "wgWait"}

\* C1: at most one invocation of Run is past the compare-and-swap, and a Run
\* invoked while another is in progress returns "server is already running"
\* without touching a server, a listener, the wait group or a goroutine.
C1_AtMostOneRun ==
    /\ [](Cardinality({c \in Callers : InRun(c)}) <= 1)
    /\ [][\A c \in Callers :
            /\ (pc[c] = "cas" /\ pc'[c] # "cas" /\ ~exited'
                  /\ \E d \in Callers \ {c} : InRun(d))
                => (pc'[c] = "rejected" /\ UNCHANGED <<srvVars, goVars, running, wg, runs>>)
            /\ (pc[c] = "rejected" /\ pc'[c] # "rejected" /\ ~exited')
                => (pc'[c] = "idle" /\ UNCHANGED <<srvVars, goVars, running, wg, runs>>)
       ]_vars

\* a second Run is being rejected while the first one blocks on its context
C1_Witness ==
    \E c, d \in Callers : c # d /\ pc[c] = "block" /\ pc[d] = "rejected"

\* C2: every Run that won the compare-and-swap eventually returns and leaves
\* the running flag false (given scheduling, cancellation and Shutdown
\* returning).
C2_RunAlwaysReturns ==
    \A c \in Callers : InRun(c) ~> (pc[c] = "idle" /\ ~running)

\* C3: when binding the application listener fails, no serve goroutine was
\* started and Run returns the error to its caller.
C3_AppBindFailureReturned ==
    /\ [](\A c \in Callers : retval[c] = "errStartApp" =>
            \A k \in Kinds : g[k][runs] = "none")
    /\ \A c \in Callers : (retval[c] = "errStartApp") ~> (pc[c] = "idle")

\* C4: when the metrics listener fails to start, Run shuts the application
\* server down and returns the error to its caller.
C4_MetricsFailureReturned ==
    \A c \in Callers : (retval[c] = "errStartMetrics") ~> (pc[c] = "idle" /\ ~running)

\* the Run with this number has returned
RunOver(r) == r < runs \/ (r = runs /\ ~running)

\* C5: no state has a Run that returned and a serve goroutine of that Run
\* that has not finished.
C5_NoGoroutineOutlivesRun ==
    \A r \in RunIds : RunOver(r) =>
        \A k \in Kinds : g[k][r] \in {"none", "done"}

\* C6: in a Run that started the metrics server, the application server's
\* Shutdown is invoked only after the metrics server's Shutdown returned.
C6_MetricsShutdownFirst ==
    (running /\ g["metrics"][runs] # "none" /\ inShutdown["app"][runs])
        => (inShutdown["metrics"][runs] /\ shutdownErr["metrics"] # "none")

\* both servers of a Run with metrics have been shut down
C6_Witness ==
    /\ running /\ cfg.EnableMetrics
    /\ g["metrics"][runs] # "none"
    /\ shutdownErr["metrics"] # "none" /\ shutdownErr["app"] # "none"

\* C7: after the watch function returned an error, Run is in its deferred
\* hooks without waiting for cancellation: metrics Shutdown (when started)
\* has returned before the application Shutdown, both are done before the
\* final Wait, the Wait is not blocked, and the value returned is the
\* watcher's error.
C7_WatchErrorTearsDown ==
    \A c \in Callers : retval[c] = "errWatch" =>
        /\ pc[c] \in DeferPcs
        /\ (pc[c] = "metricsShutdown") => cfg.EnableMetrics
        /\ (pc[c] \in {"appShutdown", "appShutdownWait", "wgWait"} /\ cfg.EnableMetrics)
              => (inShutdown["metrics"][runs] /\ shutdownErr["metrics"] # "none")
        /\ (pc[c] \in {"appShutdownWait", "wgWait"}) => inShutdown["app"][runs]
        /\ (pc[c] = "wgWait") => (shutdownErr["app"] # "none" /\ WaitReturns(wg))

\* Run is about to return the watcher's error, its context never cancelled,
\* after shutting down both servers
C7_Witness ==
    \E c \in Callers :
        /\ retval[c] = "errWatch" /\ pc[c] = "wgWait" /\ ~ctxDone[c]
        /\ cfg.EnableMetrics
        /\ inShutdown["metrics"][runs] /\ inShutdown["app"][runs]

\* exactly one of the inline certificate and key is empty
PartialPEM == (cfg.TLSCertPEM = "") # (cfg.TLSKeyPEM = "")

\* client-auth is enabled and no CA can be obtained or parsed
CAUnusable ==
    /\ cfg.TLSClientAuth
    /\ \/ cfg.TLSCAPEM = "garbage"
       \/ /\ cfg.TLSCAPEM = ""
          /\ \/ cfg.TLSPath = "" /\ cfg.LoadedConfigPath = ""
             \/ cfg.TLSPath = "/tls" /\ (fs.dir # "/tls" \/ fs.ca # "caPEM")
             \/ /\ cfg.TLSPath = "" /\ cfg.LoadedConfigPath # ""
                /\ (fs.dir # "/etc/tfa" \/ fs.ca # "caPEM")

NoTLSMaterial ==
    /\ cfg.TLSCertPEM = "" /\ cfg.TLSKeyPEM = ""
    /\ cfg.TLSPath = "" /\ cfg.LoadedConfigPath = ""

\* C9 as stated: with no inline certificate or key and no resolvable
\* directory, loadTLSConfig returns TLS disabled and a nil error whatever
\* the client-auth flag and the inline CA are.
C9_NoMaterialNeverFails ==
    (constructed # "no" /\ NoTLSMaterial) =>
        (tlsConfig = NilConfig /\ tlsCertWatchFn = NilFn /\ newErr = NoErr)

\* C9 amended: with no inline certificate or key and no resolvable
\* directory, loadTLSConfig returns TLS disabled with a nil error when
\* client-auth is disabled or the inline CA parses, and a non-nil error (nil
\* config, nil watch function) when client-auth is enabled and the inline CA
\* is empty or yields no certificate.
C9_NoMaterialDisablesTLS ==
    (constructed # "no" /\ NoTLSMaterial) =>
        /\ tlsConfig = NilConfig /\ tlsCertWatchFn = NilFn
        /\ (newErr = NoErr) <=> (~cfg.TLSClientAuth \/ cfg.TLSCAPEM = "caPEM")

\* TLS disabled without error although client-auth is on: the inline CA parsed
C9_Witness ==
    /\ constructed = "ready" /\ NoTLSMaterial
    /\ cfg.TLSClientAuth /\ cfg.TLSCAPEM = "caPEM"
    /\ tlsConfig = NilConfig /\ newErr = NoErr

\* C10: with client-auth enabled and no usable CA, loadTLSConfig returns an
\* error, a nil config and a nil watch function, whatever the certificate
\* and key settings are.
C10_MissingCAIsError ==
    (constructed # "no" /\ CAUnusable) =>
        (newErr # NoErr /\ tlsConfig = NilConfig /\ tlsCertWatchFn = NilFn)

\* rejected for its CA file although the inline certificate and key are valid
C10_Witness ==
    /\ constructed = "failed" /\ CAUnusable
    /\ cfg.TLSCAPEM = "" /\ cfg.TLSPath = "/tls" /\ fs.dir = "/tls" /\ fs.ca = "garbage"
    /\ cfg.TLSCertPEM = "certA" /\ cfg.TLSKeyPEM = "keyA"
    /\ newErr = "errCAImport"

\* C11: once Run chose nil as its result (the context was cancelled after a
\* successful startup), the result stays nil until Run returns it, whatever
\* the Shutdown calls return; the metrics Shutdown (when started) and the
\* application Shutdown are both invoked and have both returned before the
\* final Wait, and the Wait is not blocked.
C11_ShutdownErrorIgnored ==
    /\ [](\A c \in Callers : retval[c] = "nil" =>
            /\ pc[c] \in DeferPcs /\ ctxDone[c]
            /\ (pc[c] \in {"appShutdown", "appShutdownWait", "wgWait"} /\ cfg.EnableMetrics)
                  => (inShutdown["metrics"][runs] /\ shutdownErr["metrics"] # "none")
            /\ (pc[c] \in {"appShutdownWait", "wgWait"}) => inShutdown["app"][runs]
            /\ (pc[c] = "wgWait") => (shutdownErr["app"] # "none" /\ WaitReturns(wg)))
    /\ [][\A c \in Callers : (retval[c] = "nil" /\ ~exited') =>
            \/ retval'[c] = "nil"
            \/ pc[c] = "wgWait" /\ pc'[c] = "idle" /\ ~running'
       ]_vars

\* Run is about to return nil although both Shutdown calls returned an error
C11_Witness ==
    \E c \in Callers :
        /\ retval[c] = "nil" /\ pc[c] = "wgWait"
        /\ shutdownErr["metrics"] = "err" /\ shutdownErr["app"] = "err"

\* a return statement with an error has been executed in the caller's Run
Failed(c) == retval[c] \in {"errStartApp", "errStartMetrics", "errWatch"}

\* C12: while a Run that met no start error and no watch error has a context
\* that is not cancelled, it has not returned and is not in its deferred
\* hooks, and Shutdown has been invoked on neither of its servers.
C12_BlocksUntilCancelled ==
    \A c \in Callers : (InRun(c) /\ ~Failed(c) /\ ~ctxDone[c]) =>
        /\ running
        /\ retval[c] = "none"
        /\ pc[c] \notin DeferPcs
        /\ \A k \in Kinds : ~inShutdown[k][runs]

\* Run blocks on a live context after the watch function returned nil, both
\* listeners serving
C12_Witness ==
    \E c \in Callers :
        /\ pc[c] = "block" /\ ~ctxDone[c]
        /\ tlsCertWatchFn # NilFn
        /\ \A k \in Kinds : g[k][runs] = "serving"

\* C13: the two steps of a rejected Run (losing the compare-and-swap, then
\* returning "server is already running") change nothing but the position of
\* the rejected caller: the running flag stays as it was (true when the
\* compare-and-swap is lost), and the wait group, the servers, the listeners,
\* the goroutines and the position, context, result and Shutdown results of
\* the invocation in progress are unchanged, so that invocation has the same
\* steps before it as without the second call.
C13_RejectedRunChangesNothing ==
    [][\A c \in Callers :
          (\/ pc[c] = "cas" /\ pc'[c] = "rejected"
           \/ pc[c] = "rejected" /\ pc'[c] = "idle" /\ ~exited')
          => /\ (pc[c] = "cas") => (running /\ running')
             /\ \A d \in Callers \ {c} : pc'[d] = pc[d]
             /\ UNCHANGED <<cfgVars, tlsVars, srvVars, goVars, running, wg, runs,
                            ctxDone, retval, shutdownErr, exited>>
      ]_vars

\* a Run was rejected while the first invocation, both servers started, is
\* in its watch function
C13_Witness ==
    \E c, d \in Callers :
        /\ c # d /\ pc[d] = "rejected" /\ pc[c] = "watching"
        /\ running /\ wg = 2
        /\ \A k \in Kinds : listener[k] = "open"

\* the loaded configuration serves a fixed certificate list
StaticMode ==
    /\ tlsConfig # NilConfig
    /\ tlsConfig.Certificates # <<>>
    /\ tlsConfig.GetCertificate = "nil"
    /\ tlsCertWatchFn = NilFn

\* the loaded configuration looks certificates up in the provider
FileBackedMode ==
    /\ tlsConfig # NilConfig
    /\ tlsConfig.Certificates = <<>>
    /\ tlsConfig.GetCertificate # "nil"
    /\ tlsCertWatchFn # NilFn

\* the inline certificate and key are both set and form a pair
ValidInlinePair == X509KeyPair(cfg.TLSCertPEM, cfg.TLSKeyPEM)

\* C14 as stated: a non-error, non-nil result is static or file-backed and
\* not both, every valid inline pair yields the static mode, and a nil config
\* comes with a nil watch function.
C14_OneTLSMode ==
    constructed # "no" =>
        /\ (newErr = NoErr /\ tlsConfig # NilConfig) => (StaticMode # FileBackedMode)
        /\ ValidInlinePair => (newErr = NoErr /\ StaticMode)
        /\ (tlsConfig = NilConfig) => (tlsCertWatchFn = NilFn)

\* C14 amended: a non-error, non-nil result is static or file-backed and not
\* both; a valid inline pair yields the static mode unless client-auth is
\* enabled and the CA cannot be obtained or parsed, when it yields an error;
\* a nil config comes with a nil watch function.
C14_OneTLSModeUnlessCAFails ==
    constructed # "no" =>
        /\ (newErr = NoErr /\ tlsConfig # NilConfig) => (StaticMode # FileBackedMode)
        /\ (ValidInlinePair /\ ~CAUnusable) => (newErr = NoErr /\ StaticMode)
        /\ (ValidInlinePair /\ CAUnusable) => (newErr # NoErr /\ tlsConfig = NilConfig)
        /\ (tlsConfig = NilConfig) => (tlsCertWatchFn = NilFn)

\* a valid inline pair gave the static mode although the directory holds a
\* certificate and key the provider could have served
C14_Witness ==
    /\ constructed = "ready" /\ StaticMode
    /\ cfg.TLSCertPEM = "certB" /\ cfg.TLSKeyPEM = "keyB"
    /\ cfg.TLSPath = "/tls" /\ fs.dir = "/tls" /\ fs.cert = "certA" /\ fs.key = "keyA"
    /\ tlsConfig.Certificates = <<"certB">>

\* client-auth is enabled, no PEM value is inline, and the directory of the
\* tlsPath option (or, without it, of the loaded config file) holds a
\* parsable CA and a certificate with its key
FileBackedMutualTLS ==
    /\ cfg.TLSClientAuth
    /\ cfg.TLSCAPEM = "" /\ cfg.TLSCertPEM = "" /\ cfg.TLSKeyPEM = ""
    /\ \/ cfg.TLSPath = "/tls" /\ fs.dir = "/tls"
       \/ cfg.TLSPath = "" /\ cfg.LoadedConfigPath = "/etc/tfa/config.yaml"
             /\ fs.dir = "/etc/tfa"
    /\ fs.ca = "caPEM" /\ fs.cert = "certA" /\ fs.key = "keyA"

\* C15: with client-auth enabled, all inline PEM values empty and a resolved
\* directory holding a parsable CA file and a certificate/key pair,
\* loadTLSConfig returns a nil error, a config in file-backed mode whose
\* ClientAuth is VerifyClientCertIfGiven with the CA pool attached, and a
\* non-nil watch function.
C15_FileBackedMutualTLS ==
    (constructed # "no" /\ FileBackedMutualTLS) =>
        /\ newErr = NoErr
        /\ tlsConfig # NilConfig
        /\ tlsConfig.ClientAuth = "VerifyClientCertIfGiven"
        /\ tlsConfig.ClientCAs = "caCertPool"
        /\ tlsConfig.GetCertificate = "provider.GetCertificateFn"
        /\ tlsCertWatchFn = "provider.Watch"

\* the files next to the loaded config file were used, no tlsPath set
C15_Witness ==
    /\ constructed = "ready" /\ FileBackedMutualTLS
    /\ cfg.TLSPath = "" /\ fs.dir = "/etc/tfa"
    /\ tlsConfig.ClientCAs = "caCertPool" /\ tlsCertWatchFn # NilFn

\* the serve goroutine of this kind was launched by the Run with this number
Started(k, r) == g[k][r] # "none"

\* the caller's Run has invoked the certificate watch function
WatchInvoked(c) ==
    /\ tlsCertWatchFn # NilFn
    /\ pc[c] \in {"watching", "block"} \/ retval[c] \in {"errWatch", "nil"}

\* C16: the metrics listener of a Run is started only when metrics are
\* enabled and after the application listener of that Run started; a Run
\* whose application listener failed has created no metrics server and
\* started nothing, and a Run with a start error never reaches the watch
\* function; the watch function is invoked only after the application
\* listener and, when enabled, the metrics listener started; with metrics
\* disabled there is never a metrics server, listener, goroutine or Shutdown.
C16_StartupInSequence ==
    /\ \A r \in RunIds :
          Started("metrics", r) => (cfg.EnableMetrics /\ Started("app", r))
    /\ \A c \in Callers :
          /\ (pc[c] = "startApp") => \A k \in Kinds : ~Started(k, runs)
          /\ (pc[c] = "startMetrics") => ~Started("metrics", runs)
          /\ (retval[c] = "errStartApp") =>
                /\ pc[c] = "wgWait"
                /\ srv["metrics"] # runs
                /\ \A k \in Kinds : ~Started(k, runs)
          /\ (retval[c] = "errStartMetrics") =>
                /\ pc[c] \in {"appShutdown", "appShutdownWait", "wgWait"}
                /\ Started("app", runs) /\ ~Started("metrics", runs)
          /\ (pc[c] = "watch" \/ WatchInvoked(c)) =>
                /\ Started("app", runs)
                /\ cfg.EnableMetrics => Started("metrics", runs)
    /\ ~cfg.EnableMetrics =>
          /\ srv["metrics"] = 0 /\ listener["metrics"] = "nil"
          /\ shutdownErr["metrics"] = "none"
          /\ \A r \in RunIds : ~Started("metrics", r) /\ ~inShutdown["metrics"][r]
          /\ \A c \in Callers : pc[c] \notin {"metricsShutdown", "metricsShutdownWait"}

\* the watch function was invoked after both listeners of the Run started
C16_Witness ==
    \E c \in Callers :
        /\ pc[c] = "watching" /\ cfg.EnableMetrics
        /\ \A k \in Kinds : Started(k, runs) /\ srv[k] = runs

\* C17: Close is executed at most once on each listener, and exactly once by
\* the time a serve goroutine on it has ended.
C17_ClosedExactlyOnce ==
    \A k \in Kinds :
        /\ closes[k] <= 1
        /\ (\E r \in RunIds : g[k][r] = "done") => closes[k] = 1

\* a goroutine is inside Serve on a server on which Shutdown was not called
ServingLive(k, r) == g[k][r] = "serving" /\ ~inShutdown[k][gsrv[k][r]]

\* C18: while Run is at or past its watch call and before its return
\* statement, the serve goroutine of every listener it started is alive; a
\* goroutine gets past Serve alive only with ErrServerClosed, that is when
\* Shutdown was called on the server it served; and the process is
\* terminated only at a step taken while some goroutine is inside Serve on a
\* server that is not shutting down, whose Serve error is then fatal.
C18_ServeErrorIsFatal ==
    /\ [](\A c \in Callers : pc[c] \in {"watch", "watching", "block"} =>
            \A k \in Kinds : Started(k, runs) => g[k][runs] \in {"start", "serving"})
    /\ [][/\ \A k \in Kinds, r \in RunIds :
                (g[k][r] = "serving" /\ g'[k][r] # "serving") =>
                    IF inShutdown[k][gsrv[k][r]]
                    THEN g'[k][r] = "retClosed" \/ (exited' /\ \E j \in Kinds, q \in RunIds : ServingLive(j, q))
                    ELSE exited'
          /\ (exited' /\ ~exited) => \E k \in Kinds, r \in RunIds : ServingLive(k, r)
       ]_vars

\* the process was terminated by a serve error
C18_Witness == exited /\ constructed = "ready"

\* C19: when client-auth is enabled and loadTLSConfig returned a nil error,
\* the config it returned is non-nil, its ClientAuth is
\* VerifyClientCertIfGiven and the CA pool is attached.
C19_ClientAuthNeverDropped ==
    (constructed # "no" /\ cfg.TLSClientAuth /\ newErr = NoErr) =>
        /\ tlsConfig # NilConfig
        /\ tlsConfig.ClientAuth = "VerifyClientCertIfGiven"
        /\ tlsConfig.ClientCAs = "caCertPool"

\* C20: a listener handed to a serve goroutine that has not called Serve yet,
\* or that is inside Serve on a server that is not shutting down, is open.
C20_ServesOnOpenListener ==
    \A k \in Kinds, r \in RunIds :
        (g[k][r] = "start" \/ ServingLive(k, r)) => listener[k] = "open"

====
